---- MODULE Spec2Model ----
(***************************************************************************)
(* Chunked upload service (s3/app): the three handlers of                  *)
(* routers/chunk_upload.py over a model of the upload directory, and the   *)
(* client methods of services/s3.py.                                       *)
(*                                                                         *)
(* Conventions.                                                            *)
(*  - File contents are sequences of bytes, and file positions are counted *)
(*    in bytes. Sizes are scaled down: both streaming loops read up to     *)
(*    BlockSize bytes at a time (1024 * 1024 in the code), and the file    *)
(*    objects of lines 39 and 67 are buffered writers with a buffer of     *)
(*    BufferSize bytes (io.DEFAULT_BUFFER_SIZE): what fits the buffer      *)
(*    reaches the file when the buffer is flushed, at the latest when the  *)
(*    file is closed; a write larger than the buffer is written through.   *)
(*    A short last block of a request body is one byte.                    *)
(*  - A file name is the sequence of its characters.                       *)
(*  - uuid4 values are modelled as fresh integers 1, 2, ...                *)
(*  - The handlers are coroutines of one event loop (uvicorn.run, one      *)
(*    process): the statements between two awaits run without any other    *)
(*    coroutine running; aiofiles operations run in a thread pool and may  *)
(*    land at any time, also while another coroutine holds the loop.       *)
(*  - HTTPExeption (sic) is taken to be a constructible class; the         *)
(*    handlers construct it and hand it back with `return`.                *)
(*  - In the S3 client, instants are seconds counted from 00:00:00 of day  *)
(*    0, a formatted timestamp is its date and time of day together with   *)
(*    its format, and an HMAC digest stands for the key and the message    *)
(*    that went into it.                                                   *)
(***************************************************************************)
EXTENDS Integers, Sequences, FiniteSets, TLC

\* ------------------------------------------------------------- bounds
MaxSessions == 2
MaxCalls == 2
MaxCompletes == 1
\* SpecOrder: how many chunk files the listed directory holds, and the
\* largest index among them.
MaxListed == 4
MaxIndex == 12
\* SpecBackend, where the storage backend may be one that fails.
BackendSessions == 1
BackendCalls == 1
BackendCompletes == 1
\* SpecClient: how often the clock advances during one call.
MaxTicks == 2
\* SpecTerminal, where a second complete request follows the first.
TerminalCompletes == 2
TerminalCalls == 1

Uploaders == {1, 2}
Completers == {1, 2}
\* The scale of the sizes: what one read of a streaming loop asks for, and
\* what the buffer of a buffered file object holds. As in the code, a block
\* less a few bytes is still more than the buffer holds, and the buffer
\* holds the short blocks of all the chunk files of a session.
BlockSize == 4
BufferSize == 2
\* A zero byte: what a write past the end of a file leaves in the gap.
Hole == "0"
\* A full block of byte x.
Block(x) == [k \in 1..BlockSize |-> x]
\* Request bodies: an empty one, one short block, a full block and a short
\* one.
ShortBody == <<"a">>
LongBody == Block("b") \o <<"a">>
Data == {<<>>, ShortBody, LongBody}
Indices == {0, 1}

\* ------------------------------------------------- names and ordering
DigitChars == <<"0", "1", "2", "3", "4", "5", "6", "7", "8", "9">>

Alphabet == <<"_", "0", "1", "2", "3", "4", "5", "6", "7", "8", "9",
              "c", "h", "k", "n", "u">>

RECURSIVE Decimal(_)
\* str(int) for a non-negative int, as the f-string formats chunk_index
\* (the indices of the model are not negative).
Decimal(n) ==
    IF n < 10 THEN <<DigitChars[n + 1]>>
    ELSE Decimal(n \div 10) \o <<DigitChars[(n % 10) + 1]>>

ChunkPrefix == <<"c", "h", "u", "n", "k", "_">>

\* f"chunk_{chunk_index}"
ChunkName(i) == ChunkPrefix \o Decimal(i)

\* str.startswith
StartsWith(s, p) == Len(s) >= Len(p) /\ SubSeq(s, 1, Len(p)) = p

RECURSIVE Split(_, _)
\* str.split(sep) for a one-character separator: the fields between separators.
Split(s, sep) ==
    IF \A k \in 1..Len(s) : s[k] # sep THEN <<s>>
    ELSE LET k == CHOOSE j \in 1..Len(s) :
                      s[j] = sep /\ \A m \in 1..(j - 1) : s[m] # sep
         IN <<SubSeq(s, 1, k - 1)>> \o Split(SubSeq(s, k + 1, Len(s)), sep)

DigitValue(c) == (CHOOSE k \in 1..10 : DigitChars[k] = c) - 1

RECURSIVE ParseInt(_)
\* int(str) for a non-empty string of decimal digits (int raises ValueError
\* for any other string; the handlers create no such name).
ParseInt(ds) ==
    IF Len(ds) = 1 THEN DigitValue(ds[1])
    ELSE 10 * ParseInt(SubSeq(ds, 1, Len(ds) - 1)) + DigitValue(ds[Len(ds)])

\* key=lambda x: int(x.split("_")[1])
SortKey(x) == ParseInt(Split(x, "_")[2])

CharRank(c) == CHOOSE k \in 1..Len(Alphabet) : Alphabet[k] = c

RECURSIVE LexLE(_, _)
\* Plain string comparison x <= y (what sorted() uses when given no key).
LexLE(x, y) ==
    IF Len(x) = 0 THEN TRUE
    ELSE IF Len(y) = 0 THEN FALSE
    ELSE IF x[1] # y[1] THEN CharRank(x[1]) < CharRank(y[1])
    ELSE LexLE(Tail(x), Tail(y))

\* The order sorted(..., key=...) compares by: the parsed numeric index.
\* (LexLE above is the order of a sort by name.)
KeyLE(x, y) == SortKey(x) <= SortKey(y)

RECURSIVE InsertSorted(_, _)
\* x placed after every element that is not greater than it (stable).
InsertSorted(s, x) ==
    IF Len(s) = 0 THEN <<x>>
    ELSE IF KeyLE(s[1], x) THEN <<s[1]>> \o InsertSorted(Tail(s), x)
    ELSE <<x>> \o s

RECURSIVE SortedFrom(_, _)
SortedFrom(acc, rest) ==
    IF Len(rest) = 0 THEN acc
    ELSE SortedFrom(InsertSorted(acc, rest[1]), Tail(rest))

\* The listing as the code would use it with no sort step at all.
Unsorted(listing) == listing

\* sorted(listing, key=lambda x: int(x.split("_")[1]))
Sorted(listing) == SortedFrom(<<>>, listing)

\* [f for f in listing if f.startswith("chunk_")]
RECURSIVE ChunkFilter(_)
ChunkFilter(listing) ==
    IF Len(listing) = 0 THEN <<>>
    ELSE IF StartsWith(listing[1], ChunkPrefix)
         THEN <<listing[1]>> \o ChunkFilter(Tail(listing))
         ELSE ChunkFilter(Tail(listing))

\* Lines 61-64: the merge order computed from a directory listing.
ChunkFiles(listing) == Sorted(ChunkFilter(listing))

\* Every order in which os.listdir may return the names in S.
Listings(S) ==
    {l \in [1..Cardinality(S) -> S] : \A i, j \in DOMAIN l : i # j => l[i] # l[j]}


\* ------------------------------------------------------------- state
VARIABLES
    limits,       \* the bounds of the run: sessions, requests, upload ids
    settings,     \* the attribute names the settings object has
    rootExists,   \* UPLOAD_DIR exists
    dirs,         \* the session directories under UPLOAD_DIR (uuid numbers)
    files,        \* <<directory, file name>> -> content, the chunk files
    merged,       \* <<upload id part, filename>> -> content, merged artifacts
    nextId,       \* how many uuids init has generated
    up,           \* per upload-chunk request: position and locals
    cp,           \* per complete request: position and locals
    calls,        \* upload-chunk requests received so far
    completes,    \* complete requests received so far
    acked,        \* history: <<upload id, index>> -> the data of the last
                  \* call that returned {"detail": "chunk uploaded"}, whether
                  \* it overlapped another call on the same upload id, and
                  \* whether it is the only such call
    backend,      \* the storage backend: the objects it holds, and what it
                  \* does with a transfer request
    listing,      \* SpecOrder: a directory listing
    order,        \* SpecOrder: the merge order computed from it
    opc,          \* SpecOrder: position
    clock,        \* SpecClient: the wall clock, in seconds
    cl            \* SpecClient: a call of an S3Client method and its locals

vars == <<limits, settings, rootExists, dirs, files, merged, nextId, up, cp, calls,
          completes, acked, backend, listing, order, opc, clock, cl>>

fsVars == <<rootExists, dirs, files, merged>>
orderVars == <<listing, order, opc>>
clientVars == <<clock, cl>>
serverVars == <<rootExists, dirs, files, merged, nextId, up, cp, calls, completes,
                acked, backend>>

\* The fields class Settings declares (through S3Settings).
SettingsFields ==
    {"S3_BUCKET", "S3_ENDPOINT", "S3_ACCESS_KEY", "S3_SECRET_ACCESS_KEY", "S3_REGION"}

\* UPLOAD_DIR itself, as a directory key.
Root == 0

\* ------------------------------------------------- upload ids and paths
\* str(uuid.uuid4()): the n-th value generated.
UuidId(n) == [k |-> "uuid", n |-> n, f |-> <<>>]
\* The empty string: os.path.join(UPLOAD_DIR, "") is UPLOAD_DIR + "/".
EmptyId == [k |-> "empty", n |-> Root, f |-> <<>>]
\* The string f"{uuid}_{filename}": the name of a merged artifact.
ArtifactId(n, f) == [k |-> "artifact", n |-> n, f |-> f]

\* A filename is the sequence of its "/"-separated components.
PlainName == <<"a.txt">>
NestedName == <<"x", "a.txt">>
Filenames == {PlainName, NestedName}

UploadIds ==
    {UuidId(n) : n \in 1..MaxSessions} \cup {EmptyId, ArtifactId(1, PlainName)}

\* A check of UPLOAD_DIR in place of upload_dir.
RootExistsOnly(id) == rootExists

\* A check that passes as soon as any session directory exists.
AnySessionExists(id) == dirs # {}

\* os.path.exists(os.path.join(UPLOAD_DIR, upload_id))
PathExists(id) ==
    CASE id.k = "uuid" -> id.n \in dirs
      [] id.k = "empty" -> rootExists
      [] OTHER -> <<id.n, id.f>> \in DOMAIN merged

\* The path is an existing directory (open() and listdir() need one).
IsDir(id) == id.k # "artifact" /\ PathExists(id)

DirKey(id) == id.n

\* A chunk file name that leaves the index out.
ChunkPathNoIndex(id, i) == <<DirKey(id), ChunkName(0)>>

\* A chunk file name under the directory of the first session, whatever
\* the upload id.
ChunkPathFirstSession(id, i) == <<1, ChunkName(i)>>

\* os.path.join(upload_dir, f"chunk_{chunk_index}")
ChunkPath(id, i) == <<DirKey(id), ChunkName(i)>>

\* os.path.join(UPLOAD_DIR, f"{upload_id}_{filename}")
MergedPath(id, filename) == <<DirKey(id), filename>>

\* f"{settings.S3_KEY}/{filename}": the form of the key line 78 is written
\* to build; the model uses it as an argument of the client methods only.
S3Key(filename) == <<"S3_KEY">> \o filename

\* The names os.listdir(upload_dir) returns that are not chunk files: in a
\* session directory none, in UPLOAD_DIR the session directories and the
\* merged artifacts.
DirName(n) == Decimal(n)
ArtifactName(key) ==
    (IF key[1] = Root THEN <<>> ELSE Decimal(key[1])) \o <<"_">> \o key[2]
OtherNames(d) ==
    IF d = Root
    THEN {DirName(n) : n \in dirs} \cup {ArtifactName(key) : key \in DOMAIN merged}
    ELSE {}
FilesIn(d) == {q \in DOMAIN files : q[1] = d}
ChunkNamesIn(d) == {key[2] : key \in FilesIn(d)}

\* The names in directory d (what os.scandir and os.listdir find).
Names(d) == OtherNames(d) \cup ChunkNamesIn(d)

\* os.listdir(upload_dir): all the names of the directory, in any order.
DirListings(d) == Listings(Names(d))

\* ----------------------------------------------------------- contents
Min(a, b) == IF a < b THEN a ELSE b
Max(a, b) == IF a < b THEN b ELSE a

\* read(BlockSize) of a stream s at position pos: the next bytes, at most
\* BlockSize of them, none at or past the end.
ReadAt(s, pos) ==
    IF pos < Len(s) THEN SubSeq(s, pos + 1, Min(Len(s), pos + BlockSize)) ELSE <<>>

\* os.write of the bytes bs at file position pos; a write past the end
\* leaves a gap of zero bytes.
WriteBytes(c, pos, bs) ==
    [k \in 1..Max(Len(c), pos + Len(bs)) |->
        IF k > pos /\ k <= pos + Len(bs) THEN bs[k - pos]
        ELSE IF k <= Len(c) THEN c[k] ELSE Hole]

\* BufferedWriter.write(chunk) with buf in the buffer: what fits the room
\* left is added to the buffer; otherwise the buffer is written out (out)
\* and the chunk goes after it when it is larger than the buffer, and into
\* the emptied buffer when not.
BufferedWrite(buf, chunk) ==
    IF Len(chunk) <= BufferSize - Len(buf)
    THEN [out |-> <<>>, buf |-> buf \o chunk]
    ELSE IF Len(chunk) > BufferSize
    THEN [out |-> buf \o chunk, buf |-> <<>>]
    ELSE [out |-> buf, buf |-> chunk]

Without(f, keys) == [q \in (DOMAIN f) \ keys |-> f[q]]
With(f, key, v) == [q \in (DOMAIN f) \cup {key} |-> IF q = key THEN v ELSE f[q]]
Empty == <<>>

\* ------------------------------------------------------------ results
\* What a handler hands to the framework: how is "return" or "raise".
NoResult ==
    [how |-> "none", type |-> "none", status |-> 0, arg |-> "", text |-> ""]
\* {"detail": "chunk uploaded"}
ChunkUploaded ==
    [how |-> "return", type |-> "dict", status |-> 0, arg |-> "detail",
     text |-> "chunk uploaded"]
\* return HTTPExeption(status_code=403, detail="Invalid upload id")   (line 37)
InvalidUploadId ==
    [how |-> "return", type |-> "HTTPExeption", status |-> 403,
     arg |-> "detail", text |-> "Invalid upload id"]
\* return HTTPExeption(status_code=403, detail="Error uploading chunk") (line 48)
ErrorUploadingChunk ==
    [how |-> "return", type |-> "HTTPExeption", status |-> 403,
     arg |-> "detail", text |-> "Error uploading chunk"]
\* return HTTPExeption(status_code=403, content="Invalid upload id")  (line 59)
InvalidUploadIdComplete ==
    [how |-> "return", type |-> "HTTPExeption", status |-> 403,
     arg |-> "content", text |-> "Invalid upload id"]
\* return HTTPExeption(status_code=500, detail="Error uploading merged ...")
ErrorUploadingMerged ==
    [how |-> "return", type |-> "HTTPExeption", status |-> 500,
     arg |-> "detail", text |-> "Error uploading merged file to S3"]
\* {"detail": "Successful Upload Video"}
SuccessfulUpload ==
    [how |-> "return", type |-> "dict", status |-> 0, arg |-> "detail",
     text |-> "Successful Upload Video"]
\* An exception no handler code catches.
Unhandled(type) ==
    [how |-> "raise", type |-> type, status |-> 0, arg |-> "", text |-> ""]

\* ---------------------------------------------------------- exceptions
\* An exception object: its class and, for S3ClientException, the two
\* attributes __init__ stores.
NoException == [type |-> "none", status_code |-> 0, message |-> ""]
Raised(type) == [type |-> type, status_code |-> 0, message |-> ""]
\* S3ClientException(status_code=..., message=...)
S3ClientException(status_code, message) ==
    [type |-> "S3ClientException", status_code |-> status_code,
     message |-> message]

\* ---------------------------------------------------------- processes
\* An upload-chunk request: its form fields, the bytes it has read from
\* the request body and handed to f.write (off), those of them the file
\* object still buffers (buf), and whether its file descriptor is of a
\* file a directory still names (fd).
IdleUp ==
    [pc |-> "idle", id |-> EmptyId, index |-> 0, data |-> <<>>, off |-> 0,
     buf |-> <<>>, fd |-> "none", conc |-> FALSE, result |-> NoResult]
\* A complete request: its form fields and the locals of the handler, of
\* the merge loop (k: the chunk file being read, pos: the bytes read from
\* it, buf: what merged_file still buffers) and of rmtree (todo: the
\* scanned names not yet removed, cur: the directory about to be removed).
IdleCp ==
    [pc |-> "idle", id |-> EmptyId, filename |-> PlainName, chunk_files |-> <<>>,
     k |-> 0, pos |-> 0, buf |-> <<>>, todo |-> {}, cur |-> Root,
     quiet |-> FALSE, raced |-> FALSE, e |-> NoException, result |-> NoResult]

\* The handler has ended: its locals are gone.
Ended(r, e, result) ==
    [IdleCp EXCEPT !.pc = "done", !.id = r.id, !.filename = r.filename,
                   !.quiet = r.quiet, !.raced = r.raced, !.e = e,
                   !.result = result]

\* The positions of complete_upload_handler after its first step: there
\* is no await in lines 56-78, so from the existence check to its end the
\* handler holds the event loop.
Reassembly == {"merge", "copy", "rmtree", "entries", "rmdir"}
LoopBusy == \E c \in Completers : cp[c].pc \in Reassembly

\* The upload-chunk requests whose handler is past line 37 for upload id id.
InFlight(id) == {u \in Uploaders : up[u].pc \notin {"idle", "done"} /\ up[u].id = id}

\* History: bytes were written to a chunk file of id while a complete
\* request on id was between its listing and the end of its rmtree.
MarkRaced(id) ==
    [c \in Completers |->
        IF cp[c].pc \in Reassembly /\ cp[c].id = id
        THEN [cp[c] EXCEPT !.raced = TRUE] ELSE cp[c]]

\* ------------------------------------------------------------- init
\* An init whose uuid is the one it generated first.
SessionInitReused ==
    /\ ~LoopBusy
    /\ nextId < limits.sessions
    /\ nextId' = nextId + 1
    /\ rootExists' = TRUE
    /\ dirs' = dirs \cup {1}
    /\ UNCHANGED <<limits, settings, files, merged, up, cp, calls, completes, acked,
                   backend, orderVars, clientVars>>

\* init_upload_handler, lines 20-24.
SessionInit ==
    /\ ~LoopBusy
    /\ nextId < limits.sessions
    /\ nextId' = nextId + 1
    /\ rootExists' = TRUE
    /\ dirs' = dirs \cup {nextId + 1}
    /\ UNCHANGED <<limits, settings, files, merged, up, cp, calls, completes, acked,
                   backend, orderVars, clientVars>>

\* ------------------------------------------------------ upload chunk
\* A request POST /upload/chunk/ with its form fields: lines 34-39, the
\* existence check, then the open is handed to the pool. (Requests take the
\* first free slot of Uploaders: which slot serves a request changes
\* nothing.)
ChunkCall(u, id, i, d) ==
    /\ ~LoopBusy
    /\ up[u].pc = "idle"
    /\ \A v \in Uploaders : v < u => up[v].pc # "idle"
    /\ calls < limits.calls
    /\ calls' = calls + 1
    /\ LET call == [IdleUp EXCEPT !.id = id, !.index = i, !.data = d]
           others == InFlight(id)
       IN IF ~PathExists(id)
          THEN up' = [up EXCEPT ![u] = [IdleUp EXCEPT !.pc = "done", !.id = id,
                                                      !.result = InvalidUploadId]]
          ELSE up' = [v \in Uploaders |->
                        IF v = u THEN [call EXCEPT !.pc = "open",
                                                   !.conc = others # {}]
                        ELSE IF v \in others THEN [up[v] EXCEPT !.conc = TRUE]
                        ELSE up[v]]
    /\ UNCHANGED <<limits, settings, fsVars, nextId, cp, completes, acked, backend,
                   orderVars, clientVars>>

\* Lines 40-43: where the coroutine goes when it resumes with off bytes of
\* the request body written: the next block is read from the body
\* (ReadAt(data, off)), and written if it is not empty; after the last
\* block the file is closed.
AfterPool(data, off) == IF off < Len(data) THEN "write" ELSE "close"

\* Line 39, in the pool: open(chunk_filename, "wb") creates or truncates the
\* file; it raises when the directory is gone or the path is a file. The
\* coroutine that awaits it is made ready, and resumes when the event loop
\* comes to it.
ChunkOpen(u) ==
    /\ up[u].pc = "open"
    /\ IF IsDir(up[u].id)
       THEN /\ files' = With(files, ChunkPath(up[u].id, up[u].index), <<>>)
            /\ up' = [up EXCEPT ![u].pc = "ready", ![u].fd = "linked",
                                ![u].off = 0]
       ELSE /\ up' = [up EXCEPT ![u].pc = "raised"]
            /\ UNCHANGED files
    /\ UNCHANGED <<limits, settings, rootExists, dirs, merged, nextId, cp, calls,
                   completes, acked, backend, orderVars, clientVars>>

\* Lines 40-43, on the event loop: the coroutine resumes after the open or
\* after a write, once the loop has run what was queued before it and no
\* complete request holds the loop; it reads the next block of the body
\* and hands the write, or after the last block the close, to the pool.
ChunkRead(u) ==
    /\ ~LoopBusy
    /\ up[u].pc = "ready"
    /\ up' = [up EXCEPT ![u].pc = AfterPool(up[u].data, up[u].off)]
    /\ UNCHANGED <<limits, settings, fsVars, nextId, cp, calls, completes, acked,
                   backend, orderVars, clientVars>>

\* Line 44, in the pool: f is a buffered writer. What it writes out goes
\* to the file at the position the file descriptor has reached, which is
\* the bytes handed to f.write less those still buffered. A file whose
\* directory entry was removed meanwhile is no longer visible. The
\* coroutine that awaits the write is made ready.
ChunkWrite(u) ==
    /\ up[u].pc = "write"
    /\ LET key == ChunkPath(up[u].id, up[u].index)
           chunk == ReadAt(up[u].data, up[u].off)
           w == BufferedWrite(up[u].buf, chunk)
           off == up[u].off + Len(chunk)
       IN /\ up' = [up EXCEPT ![u].pc = "ready", ![u].off = off,
                               ![u].buf = w.buf]
          /\ IF up[u].fd = "linked" /\ w.out # <<>>
             THEN /\ files' = With(files, key,
                                  WriteBytes(files[key], up[u].off - Len(up[u].buf),
                                             w.out))
                  /\ cp' = MarkRaced(up[u].id)
             ELSE UNCHANGED <<files, cp>>
    /\ UNCHANGED <<limits, settings, rootExists, dirs, merged, nextId, calls,
                   completes, acked, backend, orderVars, clientVars>>

\* Line 39, the end of the `async with`, in the pool: f.close() writes what
\* the buffer holds and closes the file.
ChunkClose(u) ==
    /\ up[u].pc = "close"
    /\ LET key == ChunkPath(up[u].id, up[u].index)
       IN IF up[u].fd = "linked" /\ up[u].buf # <<>>
          THEN /\ files' = With(files, key,
                               WriteBytes(files[key], up[u].off - Len(up[u].buf),
                                          up[u].buf))
               /\ cp' = MarkRaced(up[u].id)
          ELSE UNCHANGED <<files, cp>>
    /\ up' = [up EXCEPT ![u].pc = "closed", ![u].buf = <<>>, ![u].fd = "none"]
    /\ UNCHANGED <<limits, settings, rootExists, dirs, merged, nextId, calls,
                   completes, acked, backend, orderVars, clientVars>>

\* Lines 45-48, on the event loop: the handler returns; an exception of
\* lines 34-44 is caught and an HTTPExeption object returned.
ChunkReturn(u) ==
    /\ ~LoopBusy
    /\ up[u].pc \in {"closed", "raised"}
    /\ IF up[u].pc = "closed"
       THEN /\ up' = [up EXCEPT ![u].pc = "done", ![u].result = ChunkUploaded]
            /\ LET key == <<up[u].id, up[u].index>>
               IN acked' = With(acked, key,
                                [data |-> up[u].data, conc |-> up[u].conc,
                                 once |-> key \notin DOMAIN acked])
       ELSE /\ up' = [up EXCEPT ![u].pc = "done",
                                ![u].result = ErrorUploadingChunk]
            /\ UNCHANGED acked
    /\ UNCHANGED <<limits, settings, fsVars, nextId, cp, calls, completes, backend,
                   orderVars, clientVars>>

\* The framework has sent the handler's result to the client.
ChunkRespond(u) ==
    /\ up[u].pc = "done"
    /\ up' = [up EXCEPT ![u] = IdleUp]
    /\ UNCHANGED <<limits, settings, fsVars, nextId, cp, calls, completes, acked,
                   backend, orderVars, clientVars>>


\* ----------------------------------------------------------- complete
\* A request POST /upload/chunk/complete with its form fields: lines
\* 56-64, the existence check, the listing and its sort. os.listdir raises
\* NotADirectoryError, which nothing catches, when the path is a file.
\* (Requests take the first free slot of Completers.)
CompleteCall(c, id, filename) ==
    /\ ~LoopBusy
    /\ cp[c].pc = "idle"
    /\ \A v \in Completers : v < c => cp[v].pc # "idle"
    /\ completes < limits.completes
    /\ completes' = completes + 1
    /\ LET call == [IdleCp EXCEPT !.id = id, !.filename = filename]
       IN IF ~PathExists(id)
          THEN cp' = [cp EXCEPT ![c] =
                        [call EXCEPT !.pc = "done",
                                     !.result = InvalidUploadIdComplete]]
          ELSE IF ~IsDir(id)
          THEN cp' = [cp EXCEPT ![c] =
                        [call EXCEPT !.pc = "done",
                                     !.result = Unhandled("NotADirectoryError")]]
          ELSE \E l \in DirListings(DirKey(id)) :
                  cp' = [cp EXCEPT ![c] =
                           [call EXCEPT !.pc = "merge",
                                        !.chunk_files = ChunkFiles(l),
                                        !.quiet = (InFlight(id) = {})]]
    /\ UNCHANGED <<limits, settings, fsVars, nextId, up, calls, acked, backend,
                   orderVars, clientVars>>

\* Lines 66-67: the merged file is opened "wb", which creates or truncates
\* it. The open raises FileNotFoundError, which nothing catches, when the
\* filename has a directory part: f"{upload_id}_x" is no directory. With no
\* chunk file to copy the `with` block ends at once.
CompleteMerge(c) ==
    /\ cp[c].pc = "merge"
    /\ IF Len(cp[c].filename) > 1
       THEN /\ cp' = [cp EXCEPT ![c] =
                        Ended(cp[c], NoException, Unhandled("FileNotFoundError"))]
            /\ UNCHANGED merged
       ELSE /\ merged' = With(merged, MergedPath(cp[c].id, cp[c].filename), <<>>)
            /\ cp' = [cp EXCEPT ![c].pc = IF Len(cp[c].chunk_files) = 0
                                          THEN "rmtree" ELSE "copy",
                                ![c].k = 1, ![c].pos = 0, ![c].buf = <<>>]
    /\ UNCHANGED <<limits, settings, rootExists, dirs, files, nextId, up, calls,
                   completes, acked, backend, orderVars, clientVars>>

\* Lines 68-75, one cf.read(1024 * 1024) of chunk file k and what follows
\* it: the read goes on from the byte the last read of this file ended at
\* and gives what the file holds from there now. The bytes go to
\* merged_file, a buffered writer as in ChunkWrite, which only appends. An
\* empty read ends the chunk file; after the last chunk file merged_file is
\* closed, which writes what its buffer holds. (open(chunk_path, "rb")
\* raises when the file is gone.)
CompleteCopy(c) ==
    /\ cp[c].pc = "copy"
    /\ LET key == <<DirKey(cp[c].id), cp[c].chunk_files[cp[c].k]>>
           path == MergedPath(cp[c].id, cp[c].filename)
       IN IF key \notin DOMAIN files
          THEN /\ cp' = [cp EXCEPT ![c] =
                           Ended(cp[c], NoException, Unhandled("FileNotFoundError"))]
               /\ UNCHANGED merged
          ELSE LET data == ReadAt(files[key], cp[c].pos)
                   w == BufferedWrite(cp[c].buf, data)
               IN IF data # <<>>
                  THEN /\ cp' = [cp EXCEPT ![c].pos = cp[c].pos + Len(data),
                                           ![c].buf = w.buf]
                       /\ merged' = With(merged, path, merged[path] \o w.out)
                  ELSE IF cp[c].k < Len(cp[c].chunk_files)
                  THEN /\ cp' = [cp EXCEPT ![c].k = cp[c].k + 1, ![c].pos = 0]
                       /\ UNCHANGED merged
                  ELSE /\ cp' = [cp EXCEPT ![c].pc = "rmtree", ![c].buf = <<>>]
                       /\ merged' = With(merged, path, merged[path] \o cp[c].buf)
    /\ UNCHANGED <<limits, settings, rootExists, dirs, files, nextId, up, calls,
                   completes, acked, backend, orderVars, clientVars>>

\* os.unlink of chunk files: the requests that hold one of them open keep
\* writing to a file no directory names.
Unlinked(keys) ==
    [u \in Uploaders |->
        IF up[u].fd = "linked" /\ ChunkPath(up[u].id, up[u].index) \in keys
        THEN [up[u] EXCEPT !.fd = "unlinked"] ELSE up[u]]

\* Line 77, shutil.rmtree(upload_dir), its first step: the names in the
\* directory are scanned. In a session directory they are all files, which
\* are unlinked (in one step: a pool operation that lands between two
\* unlinks finds what it finds before or after them); UPLOAD_DIR itself
\* is removed name by name.
CompleteRmtree(c) ==
    /\ cp[c].pc = "rmtree"
    /\ LET d == DirKey(cp[c].id)
       IN IF d = Root
          THEN /\ cp' = [cp EXCEPT ![c].pc = IF Names(Root) = {} THEN "rmdir"
                                             ELSE "entries",
                                   ![c].todo = Names(Root), ![c].cur = Root]
               /\ UNCHANGED <<files, up>>
          ELSE /\ files' = Without(files, FilesIn(d))
               /\ up' = Unlinked(FilesIn(d))
               /\ cp' = [cp EXCEPT ![c].pc = "rmdir", ![c].cur = d]
    /\ UNCHANGED <<limits, settings, rootExists, dirs, merged, nextId, calls,
                   completes, acked, backend, orderVars, clientVars>>

\* rmtree of UPLOAD_DIR, the next scanned name e (os.scandir gives them in
\* any order): a file is unlinked; a session directory is scanned and its
\* files unlinked, and its rmdir comes next.
CompleteRmtreeEntry(c, e) ==
    /\ cp[c].pc = "entries"
    /\ e \in cp[c].todo
    /\ LET rest == cp[c].todo \ {e}
           after == [cp[c] EXCEPT !.todo = rest,
                                  !.pc = IF rest = {} THEN "rmdir" ELSE "entries"]
       IN IF \E n \in dirs : DirName(n) = e
          THEN LET n == CHOOSE n \in dirs : DirName(n) = e
               IN /\ files' = Without(files, FilesIn(n))
                  /\ up' = Unlinked(FilesIn(n))
                  /\ cp' = [cp EXCEPT ![c] = [after EXCEPT !.pc = "rmdir",
                                                          !.cur = n]]
                  /\ UNCHANGED merged
          ELSE IF \E key \in DOMAIN merged : ArtifactName(key) = e
          THEN LET key == CHOOSE key \in DOMAIN merged : ArtifactName(key) = e
               IN /\ merged' = Without(merged, {key})
                  /\ cp' = [cp EXCEPT ![c] = after]
                  /\ UNCHANGED <<files, up>>
          ELSE /\ files' = Without(files, {<<Root, e>>})
               /\ up' = Unlinked({<<Root, e>>})
               /\ cp' = [cp EXCEPT ![c] = after]
               /\ UNCHANGED merged
    /\ UNCHANGED <<limits, settings, rootExists, dirs, nextId, calls, completes,
                   acked, backend, orderVars, clientVars>>

\* rmtree, os.rmdir of directory cur: OSError (directory not empty), which
\* nothing catches, when a pending open has created a file in it since
\* its names were removed, and the directory stays. After the rmdir of
\* upload_dir itself line 78 follows: the key is built from
\* settings.S3_KEY, and the attribute lookup raises AttributeError, which
\* nothing catches, as the settings object has no such attribute. (Lines
\* 80-88 come after a lookup that returns; NoTransfer below shows that
\* none does.)
CompleteRmdir(c) ==
    /\ cp[c].pc = "rmdir"
    /\ LET d == cp[c].cur
       IN IF Names(d) # {}
          THEN /\ cp' = [cp EXCEPT ![c] =
                           Ended(cp[c], NoException, Unhandled("OSError"))]
               /\ UNCHANGED <<rootExists, dirs>>
          ELSE /\ IF d = Root THEN rootExists' = FALSE /\ UNCHANGED dirs
                  ELSE dirs' = dirs \ {d} /\ UNCHANGED rootExists
               /\ IF d # DirKey(cp[c].id)
                  THEN cp' = [cp EXCEPT ![c].cur = Root,
                                        ![c].pc = IF cp[c].todo = {} THEN "rmdir"
                                                  ELSE "entries"]
                  ELSE IF "S3_KEY" \notin settings
                  THEN cp' = [cp EXCEPT ![c] =
                                Ended(cp[c], NoException,
                                      Unhandled("AttributeError"))]
                  ELSE cp' = [cp EXCEPT ![c].pc = "transfer"]
    /\ UNCHANGED <<limits, settings, files, merged, nextId, up, calls, completes,
                   acked, backend, orderVars, clientVars>>

\* The framework has sent the handler's result to the client.
CompleteRespond(c) ==
    /\ cp[c].pc = "done"
    /\ cp' = [cp EXCEPT ![c] = IdleCp]
    /\ UNCHANGED <<limits, settings, fsVars, nextId, up, calls, completes, acked,
                   backend, orderVars, clientVars>>

\* ------------------------------------------------- the storage backend
Statuses == {200, 201, 204, 403, 500}
Bodies == {"", "AccessDenied"}
\* What the network gives a request: a response with its status and
\* body, a connection error (aiohttp.ClientError), a timeout
\* (asyncio.TimeoutError), or the task is cancelled while it waits.
Outcomes ==
    {[kind |-> "response", status |-> st, body |-> b] : st \in Statuses, b \in Bodies}
        \cup {[kind |-> k, status |-> 0, body |-> ""] :
                 k \in {"error", "timeout", "cancelled"}}

\* A check that takes every 2xx status for a success.
AcceptedAny2xx(status) == status \in 200..299

\* response.status in (200, 204)
Accepted(status) == status \in {200, 204}

\* What an await on the network or on the pool ends with besides its
\* value: aiohttp.ClientError, asyncio.TimeoutError, or the CancelledError
\* of a task cancelled while it waits.
Failure(kind) ==
    CASE kind = "cancelled" -> Raised("CancelledError")
      [] kind = "error" -> Raised("ClientError")
      [] kind = "timeout" -> Raised("TimeoutError")

\* A storage backend that holds no object yet and gives every transfer
\* request the outcome o.
Backend(o) == [gives |-> o, objects |-> {}]
\* The backend answers 200.
Ok == [kind |-> "response", status |-> 200, body |-> ""]

\* ------------------------------------------------ the S3 client, alone
\* Time is counted in seconds from 00:00 of day 0.
Hour == 60 * 60
Day == 24 * Hour

\* now.strftime("%Y%m%dT%H%M%SZ")
AmzDate(t) == [fmt |-> "%Y%m%dT%H%M%SZ", date |-> t \div Day, time |-> t % Day]
\* now.strftime("%Y%m%d")
DateStamp(t) == [fmt |-> "%Y%m%d", date |-> t \div Day]
\* (now + datetime.timedelta(hours=1)).strftime("%Y-%m-%dT%H:%M:%SZ")
Expiration(now) ==
    [fmt |-> "%Y-%m-%dT%H:%M:%SZ", date |-> (now + Hour) \div Day,
     time |-> (now + Hour) % Day]

\* hmac.new(key, msg, hashlib.sha256): the digest stands for what went in.
Hmac(key, msg) == [hmac_key |-> key, msg |-> msg]

\* get_signature_key(key, date_stamp, region, service), lines 37-41.
GetSignatureKey(key, date_stamp, region, service) ==
    Hmac(Hmac(Hmac(Hmac(<<"AWS4", key>>, date_stamp), region), service),
         "aws4_request")

\* f"{date_stamp}/{self.region}/s3/aws4_request"
CredentialScope(date_stamp) ==
    [date_stamp |-> date_stamp, region |-> "region", service |-> "s3",
     terminator |-> "aws4_request"]

\* f"{self.access_key}/{credential_scope}"
Credential(date_stamp) ==
    [access_key |-> "access_key", scope |-> CredentialScope(date_stamp)]

\* Lines 112-124: the policy document, dumped and base64-encoded.
PolicyBase64(bucket_, key, credential, amz_date, expiration) ==
    [b64 |-> [expiration |-> expiration,
              conditions |-> [bucket |-> bucket_, key |-> key,
                              algorithm |-> "AWS4-HMAC-SHA256",
                              credential |-> credential,
                              amz_date |-> amz_date]]]

NoRequest == [method |-> "none"]
NoOutcome == [kind |-> "none", status |-> 0, body |-> ""]
NoStamp == [fmt |-> "none"]

\* A call of a client method: the await it stands at, its arguments (the
\* key, where the data comes from, whether a file is at file_path), its
\* locals, the request it sent, the response it got, how the reading of the
\* response body ended, and the exception that is propagating (after
\* "ended": that the call ended with; NoException: it returned).
IdleCl ==
    [pc |-> "idle", op |-> "none", key |-> <<>>, src |-> "none",
     exists |-> FALSE,
     now |-> 0, amz_date |-> NoStamp, date_stamp |-> NoStamp,
     credential |-> NoStamp, policy_base64 |-> NoStamp, signature |-> NoStamp,
     request |-> NoRequest, response |-> NoOutcome, text |-> "none",
     e |-> NoException, ticks |-> 0]

ClockStarts == {0, Day - Hour - 1, Day - Hour, Day - 1}
ClockSteps == {1, Hour}
ClientKeys == {S3Key(PlainName), S3Key(NestedName)}
\* upload_file is given a file_path, or file_bytes, or neither.
Sources == {"path", "bytes", "none"}
\* How an await of the pool or of a context exit ends: with its value, or
\* with the cancellation of the task.
Awaited == {"ok", "cancelled"}
\* How await response.text() ends: the body is read, the connection
\* breaks, the read times out, or the task is cancelled.
TextEnds == {"read", "error", "timeout", "cancelled"}

\* The wall clock advances while a call stands at an await.
Tick ==
    /\ cl.pc \notin {"idle", "ended"}
    /\ cl.ticks < MaxTicks
    /\ \E d \in ClockSteps : clock' = clock + d
    /\ cl' = [cl EXCEPT !.ticks = cl.ticks + 1]
    /\ UNCHANGED <<limits, settings, serverVars, orderVars>>

\* upload_file_multipart, lines 102-127: one reading of the clock, then the
\* stamps, the credential, the policy and its signature; line 129 then
\* awaits the opening of the file.
MpCall(key, exists) ==
    /\ cl.pc = "idle"
    /\ LET now == clock
           amz_date == AmzDate(now)
           date_stamp == DateStamp(now)
           credential == Credential(date_stamp)
           expiration == Expiration(now)
           policy_base64 ==
               PolicyBase64("bucket", key, credential, amz_date, expiration)
           signing_key == GetSignatureKey("secret_key", date_stamp, "region", "s3")
       IN cl' = [cl EXCEPT !.pc = "mp_open", !.op = "multipart", !.key = key,
                           !.src = "path", !.exists = exists, !.now = now,
                           !.amz_date = amz_date, !.date_stamp = date_stamp,
                           !.credential = credential,
                           !.policy_base64 = policy_base64,
                           !.signature = Hmac(signing_key, policy_base64)]
    /\ UNCHANGED <<limits, settings, serverVars, orderVars, clock>>

\* Line 129, the await of aiofiles.open ends: the task was cancelled, or no
\* file is there, or the file is open and line 130 awaits its read.
MpOpen(r) ==
    /\ cl.pc = "mp_open"
    /\ cl' = IF r = "cancelled"
             THEN [cl EXCEPT !.pc = "ended", !.e = Failure(r)]
             ELSE IF ~cl.exists
             THEN [cl EXCEPT !.pc = "ended", !.e = Raised("FileNotFoundError")]
             ELSE [cl EXCEPT !.pc = "mp_read"]
    /\ UNCHANGED <<limits, settings, serverVars, orderVars, clock>>

\* Line 130, the await of f.read() ends, with the bytes or with the
\* cancellation of the task; either way the block of line 129 is left
\* and the closing of the file awaited.
MpRead(r) ==
    /\ cl.pc = "mp_read"
    /\ cl' = [cl EXCEPT !.pc = "mp_close",
                        !.e = IF r = "cancelled" THEN Failure(r) ELSE NoException]
    /\ UNCHANGED <<limits, settings, serverVars, orderVars, clock>>

\* A form whose x-amz-date is taken from the clock when the form is built.
MpFormFreshDate(c) ==
    [method |-> "POST", key |-> c.key, algorithm |-> "AWS4-HMAC-SHA256",
     credential |-> c.credential, amz_date |-> AmzDate(clock),
     policy |-> c.policy_base64, signature |-> c.signature]

\* Lines 132-144: the form fields, from the locals of lines 102-127.
MpForm(c) ==
    [method |-> "POST", key |-> c.key, algorithm |-> "AWS4-HMAC-SHA256",
     credential |-> c.credential, amz_date |-> c.amz_date,
     policy |-> c.policy_base64, signature |-> c.signature]

\* The exit of line 129, the await of the close ends. A cancellation, of
\* the read or of the close, ends the call. Else lines 132-148 follow:
\* the form is built, the session made and the POST sent and awaited.
MpClose(r) ==
    /\ cl.pc = "mp_close"
    /\ cl' = IF r = "cancelled"
             THEN [cl EXCEPT !.pc = "ended", !.e = Failure(r)]
             ELSE IF cl.e # NoException
             THEN [cl EXCEPT !.pc = "ended"]
             ELSE [cl EXCEPT !.pc = "mp_post", !.request = MpForm(cl)]
    /\ UNCHANGED <<limits, settings, serverVars, orderVars, clock>>

\* Lines 148-149, the await of session.post ends. Without a response its
\* exception leaves the session block. A response with a status of
\* (200, 204) leaves the response block; of any other, line 150 awaits its
\* body.
MpPost(o) ==
    /\ cl.pc = "mp_post"
    /\ cl' = IF o.kind # "response"
             THEN [cl EXCEPT !.pc = "mp_session_close", !.response = o,
                             !.e = Failure(o.kind)]
             ELSE IF Accepted(o.status)
             THEN [cl EXCEPT !.pc = "mp_release", !.response = o]
             ELSE [cl EXCEPT !.pc = "mp_text", !.response = o]
    /\ UNCHANGED <<limits, settings, serverVars, orderVars, clock>>

\* Lines 150-151, the await of response.text() ends: with the body, and
\* the S3ClientException of the status and the body is raised; or with its
\* own exception. Either leaves the response block.
MpText(r) ==
    /\ cl.pc = "mp_text"
    /\ cl' = [cl EXCEPT !.pc = "mp_release", !.text = r,
                        !.e = IF r = "read"
                              THEN S3ClientException(cl.response.status,
                                                     cl.response.body)
                              ELSE Failure(r)]
    /\ UNCHANGED <<limits, settings, serverVars, orderVars, clock>>

\* The exit of line 148: the response is released and its closing awaited.
\* A cancellation takes the place of what was propagating.
MpRelease(r) ==
    /\ cl.pc = "mp_release"
    /\ cl' = [cl EXCEPT !.pc = "mp_session_close",
                        !.e = IF r = "cancelled" THEN Failure(r) ELSE cl.e]
    /\ UNCHANGED <<limits, settings, serverVars, orderVars, clock>>

\* The exit of line 147: the closing of the session is awaited, and the
\* call ends: it returns, or raises what was propagating.
MpSessionClose(r) ==
    /\ cl.pc = "mp_session_close"
    /\ cl' = [cl EXCEPT !.pc = "ended",
                        !.e = IF r = "cancelled" THEN Failure(r) ELSE cl.e]
    /\ UNCHANGED <<limits, settings, serverVars, orderVars, clock>>

\* sign_request(method, bucket, key, headers, payload_hash), lines 45-80,
\* which reads the clock itself: the headers it returns.
SignRequest(method, key, payload_hash, now) ==
    LET amz_date == AmzDate(now)
        date_stamp == DateStamp(now)
        canonical_request ==
            [method |-> method, uri |-> key, amz_date |-> amz_date,
             payload_hash |-> payload_hash]
        string_to_sign ==
            [algorithm |-> "AWS4-HMAC-SHA256", amz_date |-> amz_date,
             scope |-> CredentialScope(date_stamp),
             hash |-> canonical_request]
        signing_key == GetSignatureKey("secret_key", date_stamp, "region", "s3")
    IN [authorization |-> [credential |-> Credential(date_stamp),
                           signature |-> Hmac(signing_key, string_to_sign)],
        amz_date |-> amz_date, content_sha256 |-> payload_hash]

\* Lines 90-95: the data is hashed, the request signed (sign_request reads
\* the clock now, before anything is sent), the session made and the PUT
\* sent and awaited.
PutRequest(c) ==
    [c EXCEPT !.pc = "put_send", !.now = clock,
              !.request = [method |-> "PUT", key |-> c.key,
                           headers |-> SignRequest("PUT", c.key, "payload_hash",
                                                   clock)]]

\* upload_file, lines 84-95. With a file_path, line 85 awaits the opening
\* of the file. With file_bytes, they are the data of line 88, and lines
\* 90-95 follow. With neither, the data is None and hashlib.sha256 of line
\* 90 raises TypeError.
PutCall(key, src, exists) ==
    /\ cl.pc = "idle"
    /\ LET c == [cl EXCEPT !.op = "put", !.key = key, !.src = src,
                           !.exists = exists]
       IN cl' = CASE src = "path" -> [c EXCEPT !.pc = "put_open"]
                  [] src = "bytes" -> PutRequest(c)
                  [] OTHER -> [c EXCEPT !.pc = "ended", !.e = Raised("TypeError")]
    /\ UNCHANGED <<limits, settings, serverVars, orderVars, clock>>

\* Line 85, the await of aiofiles.open ends: the task was cancelled, or no
\* file is there, or the file is open and line 86 awaits its read.
PutOpen(r) ==
    /\ cl.pc = "put_open"
    /\ cl' = IF r = "cancelled"
             THEN [cl EXCEPT !.pc = "ended", !.e = Failure(r)]
             ELSE IF ~cl.exists
             THEN [cl EXCEPT !.pc = "ended", !.e = Raised("FileNotFoundError")]
             ELSE [cl EXCEPT !.pc = "put_read"]
    /\ UNCHANGED <<limits, settings, serverVars, orderVars, clock>>

\* Line 86, the await of f.read() ends, with the bytes or with the
\* cancellation of the task; either way the block of line 85 is left and
\* the closing of the file awaited.
PutRead(r) ==
    /\ cl.pc = "put_read"
    /\ cl' = [cl EXCEPT !.pc = "put_close",
                        !.e = IF r = "cancelled" THEN Failure(r) ELSE NoException]
    /\ UNCHANGED <<limits, settings, serverVars, orderVars, clock>>

\* The exit of line 85, the await of the close ends. A cancellation, of
\* the read or of the close, ends the call. Else lines 90-95 follow.
PutClose(r) ==
    /\ cl.pc = "put_close"
    /\ cl' = IF r = "cancelled"
             THEN [cl EXCEPT !.pc = "ended", !.e = Failure(r)]
             ELSE IF cl.e # NoException
             THEN [cl EXCEPT !.pc = "ended"]
             ELSE PutRequest(cl)
    /\ UNCHANGED <<limits, settings, serverVars, orderVars, clock>>

\* Lines 95-96, the await of session.put ends. Without a response its
\* exception leaves the session block. A response with a status of
\* (200, 204) leaves the response block; of any other, line 97 awaits its
\* body.
PutSend(o) ==
    /\ cl.pc = "put_send"
    /\ cl' = IF o.kind # "response"
             THEN [cl EXCEPT !.pc = "put_session_close", !.response = o,
                             !.e = Failure(o.kind)]
             ELSE IF Accepted(o.status)
             THEN [cl EXCEPT !.pc = "put_release", !.response = o]
             ELSE [cl EXCEPT !.pc = "put_text", !.response = o]
    /\ UNCHANGED <<limits, settings, serverVars, orderVars, clock>>

\* Lines 97-98, the await of response.text() ends: with the body, and the
\* S3ClientException of the status and the body is raised; or with its own
\* exception. Either leaves the response block.
PutText(r) ==
    /\ cl.pc = "put_text"
    /\ cl' = [cl EXCEPT !.pc = "put_release", !.text = r,
                        !.e = IF r = "read"
                              THEN S3ClientException(cl.response.status,
                                                     cl.response.body)
                              ELSE Failure(r)]
    /\ UNCHANGED <<limits, settings, serverVars, orderVars, clock>>

\* The exit of line 95: the response is released and its closing awaited.
\* A cancellation takes the place of what was propagating.
PutRelease(r) ==
    /\ cl.pc = "put_release"
    /\ cl' = [cl EXCEPT !.pc = "put_session_close",
                        !.e = IF r = "cancelled" THEN Failure(r) ELSE cl.e]
    /\ UNCHANGED <<limits, settings, serverVars, orderVars, clock>>

\* The exit of line 94: the closing of the session is awaited, and the
\* call ends: it returns, or raises what was propagating.
PutSessionClose(r) ==
    /\ cl.pc = "put_session_close"
    /\ cl' = [cl EXCEPT !.pc = "ended",
                        !.e = IF r = "cancelled" THEN Failure(r) ELSE cl.e]
    /\ UNCHANGED <<limits, settings, serverVars, orderVars, clock>>

\* ------------------------------------------------ the listing, alone
\* os.listdir(upload_dir) of line 62, for a directory that holds up to
\* MaxListed chunk files with indices up to MaxIndex: the names it holds,
\* in any order whatever.
OrderList ==
    /\ opc = "start"
    /\ \E S \in SUBSET (0..MaxIndex) :
          /\ Cardinality(S) <= MaxListed
          /\ \E l \in Listings({ChunkName(i) : i \in S}) : listing' = l
    /\ opc' = "listed"
    /\ UNCHANGED <<limits, settings, fsVars, nextId, up, cp, calls, completes, acked,
                   backend, order, clientVars>>

OrderSort ==
    /\ opc = "listed"
    /\ order' = ChunkFiles(listing)
    /\ opc' = "sorted"
    /\ UNCHANGED <<limits, settings, fsVars, nextId, up, cp, calls, completes, acked,
                   backend, listing, clientVars>>

\* ----------------------------------------------------- specifications
\* The bounds of the specifications below; a specification that needs
\* other bounds starts from another record.
Limits ==
    [sessions |-> MaxSessions, calls |-> MaxCalls, completes |-> MaxCompletes,
     ids |-> UploadIds]

InitState ==
    /\ rootExists = FALSE
    /\ dirs = {}
    /\ files = Empty
    /\ merged = Empty
    /\ nextId = 0
    /\ up = [u \in Uploaders |-> IdleUp]
    /\ cp = [c \in Completers |-> IdleCp]
    /\ calls = 0
    /\ completes = 0
    /\ acked = Empty
    /\ listing = <<>>
    /\ order = <<>>
    /\ opc = "start"
    /\ clock = 0
    /\ cl = IdleCl

\* The service as shipped: settings is an instance of class Settings (no
\* environment adds an attribute: extra="ignore"), in front of a backend
\* that accepts what it is sent.
Init ==
    /\ InitState
    /\ limits = Limits
    /\ settings = SettingsFields
    /\ backend = Backend(Ok)

\* The service as shipped, in front of any backend: one that accepts, one
\* that rejects, one that cannot be reached or does not answer; or the
\* client goes away while the request is served.
InitBackend ==
    /\ InitState
    /\ limits = [Limits EXCEPT !.sessions = BackendSessions,
                               !.completes = BackendCompletes,
                               !.calls = BackendCalls]
    /\ settings = SettingsFields
    /\ backend \in {Backend(o) : o \in Outcomes}

Handlers ==
    \/ SessionInit
    \/ \E u \in Uploaders, id \in limits.ids, i \in Indices, d \in Data :
          ChunkCall(u, id, i, d)
    \/ \E u \in Uploaders : ChunkOpen(u)
    \/ \E u \in Uploaders : ChunkRead(u)
    \/ \E u \in Uploaders : ChunkWrite(u)
    \/ \E u \in Uploaders : ChunkClose(u)
    \/ \E u \in Uploaders : ChunkReturn(u)
    \/ \E u \in Uploaders : ChunkRespond(u)
    \/ \E c \in Completers, id \in limits.ids, f \in Filenames :
          CompleteCall(c, id, f)
    \/ \E c \in Completers : CompleteMerge(c)
    \/ \E c \in Completers : CompleteCopy(c)
    \/ \E c \in Completers : CompleteRmtree(c)
    \/ \E c \in Completers : \E e \in cp[c].todo : CompleteRmtreeEntry(c, e)
    \/ \E c \in Completers : CompleteRmdir(c)
    \/ \E c \in Completers : CompleteRespond(c)

\* No await of lines 56-78 is left out: line 78 raises in every run
\* (NoTransfer below), so nothing of lines 80-88 ever runs.
Next == Handlers
Spec == Init /\ [][Next]_vars

SpecBackend == InitBackend /\ [][Next]_vars

\* The service as shipped, with room for a second complete request.
InitTerminal ==
    /\ InitState
    /\ limits = [Limits EXCEPT !.completes = TerminalCompletes,
                               !.calls = TerminalCalls]
    /\ settings = SettingsFields
    /\ backend = Backend(Ok)
SpecTerminal == InitTerminal /\ [][Next]_vars

NextOrder == OrderList \/ OrderSort
SpecOrder == Init /\ [][NextOrder]_vars

\* The client methods alone, called at any of ClockStarts.
InitClient ==
    /\ limits = Limits
    /\ settings = SettingsFields
    /\ rootExists = FALSE /\ dirs = {} /\ files = Empty /\ merged = Empty
    /\ nextId = 0
    /\ up = [u \in Uploaders |-> IdleUp]
    /\ cp = [c \in Completers |-> IdleCp]
    /\ calls = 0 /\ completes = 0 /\ acked = Empty /\ backend = Backend(Ok)
    /\ listing = <<>> /\ order = <<>> /\ opc = "start"
    /\ clock \in ClockStarts
    /\ cl = IdleCl

NextClient ==
    \/ Tick
    \/ \E key \in ClientKeys, exists \in BOOLEAN : MpCall(key, exists)
    \/ \E r \in Awaited : MpOpen(r)
    \/ \E r \in Awaited : MpRead(r)
    \/ \E r \in Awaited : MpClose(r)
    \/ \E o \in Outcomes : MpPost(o)
    \/ \E r \in TextEnds : MpText(r)
    \/ \E r \in Awaited : MpRelease(r)
    \/ \E r \in Awaited : MpSessionClose(r)
    \/ \E key \in ClientKeys, src \in Sources, exists \in BOOLEAN :
          PutCall(key, src, exists)
    \/ \E r \in Awaited : PutOpen(r)
    \/ \E r \in Awaited : PutRead(r)
    \/ \E r \in Awaited : PutClose(r)
    \/ \E o \in Outcomes : PutSend(o)
    \/ \E r \in TextEnds : PutText(r)
    \/ \E r \in Awaited : PutRelease(r)
    \/ \E r \in Awaited : PutSessionClose(r)
SpecClient == InitClient /\ [][NextClient]_vars


\* The lookup of settings.S3_KEY on line 78 never returns: no request gets
\* past it, and the backend is never sent anything.
NoTransfer ==
    /\ "S3_KEY" \notin settings
    /\ \A c \in Completers : cp[c].pc # "transfer"
    /\ backend.objects = {}

\* =============================================================== claims
\* No file and no directory is at the path an upload id names.
NothingAt(id) ==
    CASE id.k = "uuid" -> id.n \notin dirs
      [] id.k = "empty" -> ~rootExists
      [] OTHER -> <<id.n, id.f>> \notin DOMAIN merged

\* init has issued this id.
Issued(id) == id.k = "uuid" /\ id.n \in 1..nextId

\* The indices for which a call on id has returned "chunk uploaded".
ChunksOf(id) == {i \in Indices : <<id, i>> \in DOMAIN acked}

RECURSIVE AckedBytes(_, _)
\* The acknowledged data of the indices in S, concatenated in ascending
\* index order.
AckedBytes(id, S) ==
    IF S = {} THEN <<>>
    ELSE LET i == CHOOSE x \in S : \A y \in S : x <= y
         IN acked[<<id, i>>].data \o AckedBytes(id, S \ {i})

\* A complete request on a session has just built its merged artifact, and
\* no upload-chunk request was running on the session when it started.
MergedQuietly(c) ==
    /\ cp[c].pc = "rmtree"
    /\ cp[c].quiet
    /\ cp[c].id.k = "uuid"

\* C1: when each index 0..N-1 (N >= 1) of a session was uploaded by exactly
\* one call and all calls have returned, in whatever order they arrived and
\* interleaved, the merged artifact complete builds is
\* data[0] ++ data[1] ++ ... ++ data[N-1].
C1_MergedInIndexOrder ==
    \A c \in Completers :
        MergedQuietly(c) =>
            \A n \in 1..Cardinality(Indices) :
                (/\ ChunksOf(cp[c].id) = 0..(n - 1)
                 /\ \A i \in 0..(n - 1) : acked[<<cp[c].id, i>>].once)
                => merged[MergedPath(cp[c].id, cp[c].filename)]
                     = AckedBytes(cp[c].id, 0..(n - 1))

C1_Witness ==
    \E c \in Completers :
        /\ MergedQuietly(c)
        /\ ChunksOf(cp[c].id) = {0, 1}
        /\ acked[<<cp[c].id, 0>>].once /\ acked[<<cp[c].id, 1>>].once
        /\ acked[<<cp[c].id, 0>>].data = LongBody
        /\ acked[<<cp[c].id, 1>>].data = ShortBody
        /\ merged[MergedPath(cp[c].id, cp[c].filename)] = LongBody \o ShortBody

\* The indices of the chunk files in the listing.
Listed == {i \in 0..MaxIndex : \E k \in 1..Len(listing) : listing[k] = ChunkName(i)}

\* C2: the merge order is by the number parsed from each name, whatever
\* order the directory listing returns the names in: every listed chunk
\* file is merged once, and the k-th file merged is the one whose index has
\* k - 1 smaller indices in the directory (chunk_10 after chunk_9).
C2_NumericOrder ==
    opc = "sorted" =>
        /\ Len(order) = Len(listing)
        /\ \A k \in 1..Len(order) :
              \E i \in Listed :
                  /\ order[k] = ChunkName(i)
                  /\ Cardinality({j \in Listed : j < i}) = k - 1

\* A directory listed as chunk_10, chunk_2, chunk_0, chunk_9 (no order of
\* numbers or of names) and merged as 0, 2, 9, 10.
C2_Witness ==
    /\ opc = "sorted"
    /\ listing = <<ChunkName(10), ChunkName(2), ChunkName(0), ChunkName(9)>>
    /\ order = <<ChunkName(0), ChunkName(2), ChunkName(9), ChunkName(10)>>

\* C3: an upload-chunk request whose upload id names nothing that exists
\* ends at once with the "Invalid upload id" result and changes no file and
\* no directory.
C3_InvalidChunkWritesNothing ==
    [][\A u \in Uploaders :
          (up[u].pc = "idle" /\ up'[u].pc # "idle" /\ NothingAt(up'[u].id))
          => /\ up'[u].pc = "done"
             /\ up'[u].result = InvalidUploadId
             /\ UNCHANGED fsVars]_vars

\* Such a request has ended, on a session id that was never issued while
\* another session exists.
C3_Witness ==
    \E u \in Uploaders :
        /\ up[u].pc = "done"
        /\ up[u].result = InvalidUploadId
        /\ up[u].id.k = "uuid" /\ up[u].id.n > nextId
        /\ dirs # {}

\* C4: a complete request whose upload id names nothing that exists ends at
\* once with the "Invalid upload id" result: no merged artifact is created,
\* nothing is removed and nothing reaches the storage backend.
C4_InvalidCompleteDoesNothing ==
    [][\A c \in Completers :
          (cp[c].pc = "idle" /\ cp'[c].pc # "idle" /\ NothingAt(cp'[c].id))
          => /\ cp'[c].pc = "done"
             /\ cp'[c].result = InvalidUploadIdComplete
             /\ UNCHANGED <<fsVars, backend>>]_vars

\* Such a request has ended, on a session id that was never issued, while
\* chunks of another session are staged.
C4_Witness ==
    \E c \in Completers :
        /\ cp[c].pc = "done"
        /\ cp[c].result = InvalidUploadIdComplete
        /\ cp[c].id.k = "uuid" /\ cp[c].id.n > nextId
        /\ DOMAIN files # {}


\* The backend accepts a transfer; it fails one in every other case.
BackendAccepts == backend.gives.kind = "response" /\ Accepted(backend.gives.status)

\* A complete request has ended that found its session, a session init
\* created, with no upload-chunk request running on it, and whose filename
\* has no directory part.
CompletedOnSession(c) ==
    /\ cp[c].pc = "done"
    /\ cp[c].result # InvalidUploadIdComplete
    /\ Issued(cp[c].id)
    /\ cp[c].quiet
    /\ Len(cp[c].filename) = 1

\* C5: a complete request on a session that init created and that holds
\* chunks, with a backend that accepts the transfer, returns the success
\* result, the backend has received the merged bytes under the key built
\* from filename, and neither the session directory nor the merged artifact
\* is left.
C5_CompleteUploadsAndCleans ==
    \A c \in Completers :
        (/\ cp[c].pc = "done"
         /\ BackendAccepts
         /\ Issued(cp[c].id)
         /\ cp[c].quiet
         /\ ChunksOf(cp[c].id) # {}
         /\ \A i \in ChunksOf(cp[c].id) : acked[<<cp[c].id, i>>].once
         /\ Len(cp[c].filename) = 1)
        => /\ cp[c].result = SuccessfulUpload
           /\ [key |-> S3Key(cp[c].filename),
               body |-> AckedBytes(cp[c].id, ChunksOf(cp[c].id))]
                 \in backend.objects
           /\ cp[c].id.n \notin dirs
           /\ MergedPath(cp[c].id, cp[c].filename) \notin DOMAIN merged

\* C6: when a complete request runs on an existing session and the backend
\* fails the transfer, the request ends with the storage error result, and
\* neither the session directory nor the merged artifact is left.
C6_FailedTransferLeavesNothing ==
    \A c \in Completers :
        (CompletedOnSession(c) /\ ~BackendAccepts)
        => /\ cp[c].result = ErrorUploadingMerged
           /\ NothingAt(cp[c].id)
           /\ MergedPath(cp[c].id, cp[c].filename) \notin DOMAIN merged

\* C7: upload-chunk requests that overlap on one existing session, at
\* different indices, return "chunk uploaded", and a reassembly that starts
\* after they have returned holds the full data of each of them, in index
\* order.
C7_ConcurrentChunksBothStored ==
    /\ \A u \in Uploaders :
          (/\ up[u].pc = "done"
           /\ up[u].conc
           /\ up[u].id.k = "uuid"
           /\ up[u].id.n \in dirs)
          => up[u].result = ChunkUploaded
    /\ \A c \in Completers :
          (/\ MergedQuietly(c)
           /\ Cardinality(ChunksOf(cp[c].id)) >= 2
           /\ \A i \in ChunksOf(cp[c].id) :
                 acked[<<cp[c].id, i>>].once /\ acked[<<cp[c].id, i>>].conc)
          => merged[MergedPath(cp[c].id, cp[c].filename)]
               = AckedBytes(cp[c].id, ChunksOf(cp[c].id))

\* Two overlapping uploads of two blocks and of one block were both merged.
C7_Witness ==
    \E c \in Completers :
        /\ MergedQuietly(c)
        /\ ChunksOf(cp[c].id) = {0, 1}
        /\ \A i \in {0, 1} :
              acked[<<cp[c].id, i>>].once /\ acked[<<cp[c].id, i>>].conc
        /\ acked[<<cp[c].id, 0>>].data = ShortBody
        /\ acked[<<cp[c].id, 1>>].data = LongBody
        /\ merged[MergedPath(cp[c].id, cp[c].filename)] = ShortBody \o LongBody

\* C8: no block is written to a chunk file of a session between the moment
\* a complete request lists the session's directory and the end of its
\* rmtree.
C8_ReassemblyExcludesWrites ==
    \A c \in Completers : Issued(cp[c].id) => ~cp[c].raced

\* C9: an upload id that init has not issued (the empty string, the name of
\* a merged artifact, a uuid never generated) is rejected by both handlers
\* with the "Invalid upload id" result, and no chunk file appears outside a
\* session directory.
C9_OnlyIssuedIdsAccepted ==
    /\ \A u \in Uploaders :
          (up[u].pc # "idle" /\ ~Issued(up[u].id))
          => (up[u].pc = "done" /\ up[u].result = InvalidUploadId)
    /\ \A c \in Completers :
          (cp[c].pc # "idle" /\ ~Issued(cp[c].id))
          => (cp[c].pc = "done" /\ cp[c].result = InvalidUploadIdComplete)
    /\ \A key \in DOMAIN files : key[1] # Root

\* C10: a result that is not the success result is raised, not returned.
C10_FailuresAreSignalled ==
    /\ \A u \in Uploaders :
          (up[u].pc = "done" /\ up[u].result # ChunkUploaded)
          => up[u].result.how = "raise"
    /\ \A c \in Completers :
          (cp[c].pc = "done" /\ cp[c].result # SuccessfulUpload)
          => cp[c].result.how = "raise"

\* C11: when the backend answers the transfer of a complete request with a
\* status c that is not a success and a body b, the result the request
\* hands back carries c as its status and b as its message.
C11_StorageErrorCarriesBackendDetail ==
    \A c \in Completers :
        (/\ CompletedOnSession(c)
         /\ backend.gives.kind = "response"
         /\ ~Accepted(backend.gives.status))
        => /\ cp[c].result.status = backend.gives.status
           /\ cp[c].result.text = backend.gives.body

Instant(stamp) == stamp.date * Day + stamp.time

\* C13: in the request upload_file_multipart posts, the date of the signing
\* key, the date of the credential scope, the x-amz-date of the policy and
\* of the form, and the policy expiration less one hour are all the one
\* clock reading taken when the call began, however far the clock has
\* moved since.
C13_SingleClockReading ==
    (cl.op = "multipart" /\ cl.request # NoRequest)
    => LET r == cl.request
           policy == r.policy.b64
           key_date == r.signature.hmac_key.hmac_key.hmac_key.hmac_key.msg
       IN /\ Instant(r.amz_date) = cl.now
          /\ policy.conditions.amz_date = r.amz_date
          /\ policy.conditions.credential = r.credential
          /\ r.credential.scope.date_stamp.date = r.amz_date.date
          /\ key_date = r.credential.scope.date_stamp
          /\ r.signature.msg = r.policy
          /\ Instant(policy.expiration) = cl.now + Hour

\* A call that began in the last second of day 0 and posted its form on day
\* 1: the form is dated day 0 and the policy expires on day 1.
C13_Witness ==
    /\ cl.op = "multipart"
    /\ cl.request # NoRequest
    /\ cl.now = Day - 1
    /\ clock \div Day = 1
    /\ cl.request.amz_date.date = 0
    /\ cl.request.policy.b64.expiration.date = 1

\* The transfer of a complete request has ended: the request has one of
\* the two results that follow line 81.
TransferEnded(c) ==
    cp[c].pc = "done" /\ cp[c].result \in {SuccessfulUpload, ErrorUploadingMerged}

\* C14: the session directory of a complete request is removed only after
\* the transfer of the request has ended: the order is reassembly,
\* transfer, then removal.
C14_StagingKeptUntilTransferEnds ==
    \A c \in Completers :
        (/\ cp[c].pc # "idle"
         /\ cp[c].result # InvalidUploadIdComplete
         /\ Issued(cp[c].id)
         /\ cp[c].id.n \notin dirs)
        => TransferEnded(c)

\* C15: once the upload-chunk requests on an existing session have all
\* returned, the chunk file of each index holds exactly the data of the
\* request on that index that returned last. (Stated for the time before
\* any complete request: a complete request removes chunk files.)
C15_LastCompletedWriteStored ==
    \A id \in limits.ids, i \in Indices :
        (/\ completes = 0
         /\ Issued(id)
         /\ id.n \in dirs
         /\ InFlight(id) = {}
         /\ <<id, i>> \in DOMAIN acked)
        => /\ ChunkPath(id, i) \in DOMAIN files
           /\ files[ChunkPath(id, i)] = acked[<<id, i>>].data

\* The same, for a last request that overlapped no other request on the
\* session: open(..., "wb") truncates, so nothing of an earlier chunk stays.
SequentialWritesStored ==
    \A id \in limits.ids, i \in Indices :
        (/\ completes = 0
         /\ Issued(id)
         /\ id.n \in dirs
         /\ InFlight(id) = {}
         /\ <<id, i>> \in DOMAIN acked
         /\ ~acked[<<id, i>>].conc)
        => /\ ChunkPath(id, i) \in DOMAIN files
           /\ files[ChunkPath(id, i)] = acked[<<id, i>>].data

\* C16: a complete request on a session init created ends with one of the
\* three results (success, invalid upload id, storage error), never with
\* an exception nothing handles.
C16_CompleteEndsTyped ==
    \A c \in Completers :
        (cp[c].pc = "done" /\ Issued(cp[c].id))
        => cp[c].result \in
              {SuccessfulUpload, InvalidUploadIdComplete, ErrorUploadingMerged}

\* C17: when the transfer of a complete request is cancelled or times out,
\* then once the request has ended neither the session directory nor the
\* merged artifact is left.
C17_CancelledTransferCleansUp ==
    \A c \in Completers :
        (CompletedOnSession(c) /\ backend.gives.kind \in {"cancelled", "timeout"})
        => /\ cp[c].id.n \notin dirs
           /\ MergedPath(cp[c].id, cp[c].filename) \notin DOMAIN merged

\* What the file system holds for session n: its directory, its chunk
\* files and its merged artifacts.
SessionState(n) ==
    <<n \in dirs,
      [q \in {k \in DOMAIN files : k[1] = n} |-> files[q]],
      [q \in {k \in DOMAIN merged : k[1] = n} |-> merged[q]]>>

\* This step is a step of an upload-chunk (complete) request on session a.
UpStepOf(u, a) ==
    /\ up[u].pc # up'[u].pc \/ up[u].off # up'[u].off
    /\ (IF up[u].pc = "idle" THEN up'[u].id ELSE up[u].id) = UuidId(a)
CpStepOf(c, a) ==
    /\ <<cp[c].pc, cp[c].k, cp[c].pos, cp[c].todo>>
          # <<cp'[c].pc, cp'[c].k, cp'[c].pos, cp'[c].todo>>
    /\ (IF cp[c].pc = "idle" THEN cp'[c].id ELSE cp[c].id) = UuidId(a)

\* C18: no step of an upload-chunk or complete request made with the id of
\* a session A changes the directory, the chunk files or the merged
\* artifact of another session B, however the requests interleave.
C18_SessionsIsolated ==
    [][\A a, b \in 1..MaxSessions :
          (/\ a # b
           /\ \/ \E u \in Uploaders : UpStepOf(u, a)
              \/ \E c \in Completers : CpStepOf(c, a))
          => SessionState(b)' = SessionState(b)]_vars

\* A complete request on session 1 has merged a chunk and removed the
\* directory, and session 2 still holds the chunk it was sent.
C18_Witness ==
    \E c \in Completers :
        /\ cp[c].pc = "done"
        /\ cp[c].id = UuidId(1)
        /\ MergedPath(UuidId(1), cp[c].filename) \in DOMAIN merged
        /\ merged[MergedPath(UuidId(1), cp[c].filename)] = ShortBody
        /\ dirs = {2}
        /\ ChunkPath(UuidId(2), 0) \in DOMAIN files
        /\ files[ChunkPath(UuidId(2), 0)] = LongBody

\* Init created session n and its directory is gone.
Removed(n) == n \in 1..nextId /\ n \notin dirs

\* C19: once the directory of a session init created is gone, no step
\* brings it back, and every upload-chunk and every complete request that
\* arrives for the session ends at once with the "Invalid upload id"
\* result.
C19_CompletedIsTerminal ==
    [][\A n \in 1..MaxSessions :
          Removed(n) =>
             /\ n \notin dirs'
             /\ \A u \in Uploaders :
                   (/\ up[u].pc = "idle" /\ up'[u].pc # "idle"
                    /\ up'[u].id = UuidId(n))
                   => up'[u].pc = "done" /\ up'[u].result = InvalidUploadId
             /\ \A c \in Completers :
                   (/\ cp[c].pc = "idle" /\ cp'[c].pc # "idle"
                    /\ cp'[c].id = UuidId(n))
                   => /\ cp'[c].pc = "done"
                      /\ cp'[c].result = InvalidUploadIdComplete]_vars

\* After a complete request removed session 1 and init created session 2,
\* an upload-chunk request and a second complete request for session 1 have
\* both been turned away.
C19_Witness ==
    /\ dirs = {2}
    /\ completes = 2
    /\ \E u \in Uploaders :
          /\ up[u].pc = "done"
          /\ up[u].id = UuidId(1)
          /\ up[u].result = InvalidUploadId
    /\ \E c \in Completers :
          /\ cp[c].pc = "done"
          /\ cp[c].id = UuidId(1)
          /\ cp[c].result = InvalidUploadIdComplete

\* sub occurs in s as a run of consecutive bytes.
Contains(s, sub) ==
    \E k \in 0..(Len(s) - Len(sub)) : SubSeq(s, k + 1, k + Len(sub)) = sub

\* C20: at the step in which an upload-chunk request on a session returns
\* "chunk uploaded", its data is in full in the chunk file of its index or
\* in the merged artifact of the session. (Stated for a request that
\* overlapped no other upload-chunk request, on a session for which a
\* complete request has built a merged artifact.)
C20_AckedChunkNotLost ==
    [][\A u \in Uploaders :
          (/\ up[u].pc = "closed"
           /\ up'[u].pc = "done"
           /\ up'[u].result = ChunkUploaded
           /\ ~up[u].conc
           /\ Issued(up[u].id)
           /\ \E key \in DOMAIN merged : key[1] = up[u].id.n)
          => \/ /\ ChunkPath(up[u].id, up[u].index) \in DOMAIN files'
                /\ files'[ChunkPath(up[u].id, up[u].index)] = up[u].data
             \/ \E key \in DOMAIN merged' :
                   /\ key[1] = up[u].id.n
                   /\ Contains(merged'[key], up[u].data)]_vars

====
